---- MODULE Spec2Model ----
(***************************************************************************)
(* Model of hetzner-failover.py: the startup sequence of main() and its    *)
(* monitoring loop, which probes the main HAProxy host, counts retries     *)
(* and switches the Hetzner failover IPs to the backup host and back.      *)
(*                                                                         *)
(* One loop iteration is cut into steps at the external calls (isup,       *)
(* change_ip, stride, sleep); pc is the position of main() between them.   *)
(* trace is the list of external calls made so far in the current          *)
(* iteration; api, failRun, okRun, maxUpFail, okSinceDown, switched,       *)
(* lastTarget and downAtStart are history variables that only observe the  *)
(* run.                                                                    *)
(***************************************************************************)
EXTENDS Integers, Sequences, FiniteSets, TLC

(* ---------------- bounds of the model ---------------- *)
\* largest number of failover IPs the provider lists
MaxIPs == 2
\* the run counters of the history variables saturate here
MaxRun == 5
\* the counter of consecutive successful probes saturates here (it has to
\* tell 15 successes in a row from fewer)
MaxOkRun == 16

(* ---------------- program constants ---------------- *)
\* "if retry <= 2" : the literal of both retry tests
RETRY_LIMIT == 2
\* "if loopcount == 15"
STABLE_LOG_INTERVAL == 15

(* ---------------- addresses ---------------- *)
\* Addresses are strings; a string is modelled as a sequence of characters
\* so that Python's substring test "a in b" can be computed.
\* None is Python's None (a failed lookup, a failover IP without target).
None == <<>>
HostAddr == <<1, 2>>
BackupAddr == <<3, 1>>
\* a third server whose address textually contains the main host's address
OtherAddr == <<1, 2, 3>>
Targets == {None, HostAddr, BackupAddr, OtherAddr}

\* names of the failover IPs, in the order the provider lists them
IPName(i) == IF i = 1 THEN "ip1" ELSE IF i = 2 THEN "ip2"
             ELSE IF i = 3 THEN "ip3" ELSE "ip4"

Min(a, b) == IF a < b THEN a ELSE b
Max(a, b) == IF a > b THEN a ELSE b

VARIABLES
  pc,          \* position of main()
  host_ip,     \* resolved address of the main host, or None
  backup_ip,   \* resolved address of the backup host, or None
  failips,     \* failover IPs found at startup (a list)
  api,         \* the provider's answer to the GET of startup (<<>> before it)
  retry,       \* the shared retry counter
  down,        \* the phase: TRUE = DOWN
  loopcount,   \* counter of the "was up for the last 15 checks" notice
  idx,         \* position of a "for ip in failips" loop
  env,         \* behaviour of the two health endpoints from now on
  trace,       \* external calls of the current iteration
  failRun,     \* consecutive failed probes of the main host
  okRun,       \* consecutive successful probes of the main host
  maxUpFail,   \* longest run of failed probes observed while phase UP
  okSinceDown, \* successful probes of the main host since phase became DOWN
  switched,    \* change_ip has been called at least once
  lastTarget,  \* target of the most recent change_ip call (None before any)
  downAtStart  \* value of down when the current iteration began

vars == <<pc, host_ip, backup_ip, failips, api, retry, down, loopcount, idx, env,
          trace, failRun, okRun, maxUpFail, okSinceDown, switched, lastTarget,
          downAtStart>>

prog == <<pc, host_ip, backup_ip, failips, api, retry, down, loopcount, idx>>
hist == <<failRun, okRun, maxUpFail, okSinceDown, switched, lastTarget, downAtStart>>

(* ---------------- events of the trace ---------------- *)
ProbeEv(which, up) == [ev |-> "isup", arg |-> which, target |-> None, ok |-> up]
SwitchEv(ip, target, ok) == [ev |-> "change_ip", arg |-> ip, target |-> target, ok |-> ok]
NoticeEv == [ev |-> "log15", arg |-> "main", target |-> None, ok |-> TRUE]

\* the positions of the change_ip calls in a trace
SwitchIdx(t) == {i \in 1..Len(t) : t[i].ev = "change_ip"}
\* the change_ip calls of a trace, in order
RECURSIVE SwitchesOf(_)
SwitchesOf(t) ==
  IF t = <<>> THEN <<>>
  ELSE IF Head(t).ev = "change_ip" THEN <<Head(t)>> \o SwitchesOf(Tail(t))
  ELSE SwitchesOf(Tail(t))

(* ---------------- get_failover_of_host ---------------- *)
\* Python "a in b" on strings
IsSubstring(a, b) ==
  \E k \in 0..(Len(b) - Len(a)) : \A j \in 1..Len(a) : b[k + j] = a[j]

\* the provider's answer to GET failover: one object per failover IP
ApiData ==
  UNION {{[i \in 1..n |-> [ip |-> IPName(i), active_server_ip |-> f[i]]] :
            f \in [1..n -> Targets]} : n \in 0..MaxIPs}

\* variant: the containment test the other way round
RECURSIVE get_failover_of_host_reversed(_, _)
get_failover_of_host_reversed(hip, data) ==
  IF data = <<>> THEN <<>>
  ELSE LET failover == Head(data)
           rest == get_failover_of_host_reversed(hip, Tail(data))
       IN IF failover.active_server_ip # None
             /\ IsSubstring(failover.active_server_ip, hip)
          THEN <<failover.ip>> \o rest
          ELSE rest

RECURSIVE get_failover_of_host(_, _)
get_failover_of_host(hip, data) ==
  IF data = <<>> THEN <<>>
  ELSE LET failover == Head(data)
           rest == get_failover_of_host(hip, Tail(data))
       IN IF failover.active_server_ip # None
             /\ IsSubstring(hip, failover.active_server_ip)
          THEN <<failover.ip>> \o rest
          ELSE rest

(* ---------------- isup ---------------- *)
\* the results isup can return for the main ("main") and the backup ("back")
\* check URL under the current behaviour of the endpoints
isup(which) ==
  IF env = "failing" THEN (IF which = "main" THEN {FALSE} ELSE {TRUE})
  ELSE IF env = "recovered" /\ which = "main" THEN {TRUE}
  ELSE BOOLEAN

Init ==
  /\ pc = "resolve_host"
  /\ host_ip = None
  /\ backup_ip = None
  /\ failips = <<>>
  /\ api = <<>>
  /\ retry = 0
  /\ down = FALSE
  /\ loopcount = 0
  /\ idx = 0
  /\ env = "free"
  /\ trace = <<>>
  /\ failRun = 0
  /\ okRun = 0
  /\ maxUpFail = 0
  /\ okSinceDown = 0
  /\ switched = FALSE
  /\ lastTarget = None
  /\ downAtStart = FALSE

(* ---------------- startup ---------------- *)
\* get_host_ip(host) returns the address or None; replace() raises on None
ResolveHost ==
  /\ pc = "resolve_host"
  /\ \E r \in {None, HostAddr} :
       /\ host_ip' = r
       /\ pc' = IF r = None THEN "exit1" ELSE "resolve_backup"
  /\ UNCHANGED <<backup_ip, failips, api, retry, down, loopcount, idx, env, trace>>
  /\ UNCHANGED hist

ResolveBackup ==
  /\ pc = "resolve_backup"
  /\ \E r \in {None, BackupAddr} :
       /\ backup_ip' = r
       /\ pc' = IF r = None THEN "exit1" ELSE "get_failips"
  /\ UNCHANGED <<host_ip, failips, api, retry, down, loopcount, idx, env, trace>>
  /\ UNCHANGED hist

\* variant: without the test "if failips == []"
GetFailips_unchecked ==
  /\ pc = "get_failips"
  /\ \/ /\ pc' = "exit1"
        /\ UNCHANGED <<failips, api>>
     \/ \E data \in ApiData :
          /\ api' = data
          /\ failips' = get_failover_of_host(host_ip, data)
          /\ pc' = "loop"
  /\ retry' = 0
  /\ down' = FALSE
  /\ loopcount' = 0
  /\ UNCHANGED <<host_ip, backup_ip, idx, env, trace>>
  /\ UNCHANGED hist

\* the API call raises, or answers with a list of failover objects
GetFailips ==
  /\ pc = "get_failips"
  /\ \/ /\ pc' = "exit1"
        /\ UNCHANGED <<failips, api>>
     \/ \E data \in ApiData :
          /\ api' = data
          /\ failips' = get_failover_of_host(host_ip, data)
          /\ pc' = IF failips' = <<>> THEN "exit1" ELSE "loop"
  /\ retry' = 0
  /\ down' = FALSE
  /\ loopcount' = 0
  /\ UNCHANGED <<host_ip, backup_ip, idx, env, trace>>
  /\ UNCHANGED hist

(* ---------------- the monitoring loop ---------------- *)
\* what one probe of the main host does to the history variables
Observe(up) ==
  /\ failRun' = IF up THEN 0 ELSE Min(failRun + 1, MaxRun)
  /\ okRun' = IF up THEN Min(okRun + 1, MaxOkRun) ELSE 0
  /\ maxUpFail' = IF ~up /\ ~down THEN Max(maxUpFail, failRun') ELSE maxUpFail
  /\ UNCHANGED <<switched, lastTarget, downAtStart>>

\* "if loopcount == 15": the notice is logged and the counter restarts
NoticeDue(lc) == lc = STABLE_LOG_INTERVAL
AfterNotice(lc) == IF NoticeDue(lc) THEN 0 ELSE lc
\* calls of an iteration whose probe of the main host succeeded
UpTrace(lc) == <<ProbeEv("main", TRUE)>> \o (IF NoticeDue(lc) THEN <<NoticeEv>> ELSE <<>>)

\* variant: one retry fewer
StillRecovering_early(r) == r <= RETRY_LIMIT - 1
\* variant: one retry more
StillRecovering_late(r) == r <= RETRY_LIMIT + 1
\* "if retry <= 2" of the host-is-up branch
StillRecovering(r) == r <= RETRY_LIMIT
\* variant: the branch forgets "retry = 0"
UpResetsRetry_keep(r) == r
\* "retry = 0" of the host-is-up branch while phase UP
UpResetsRetry(r) == 0
\* variant: one retry fewer
StillRetrying_early(r, d) == r <= RETRY_LIMIT - 1 /\ d # TRUE
\* "if (retry <=2) and (down != True)"
StillRetrying(r, d) == r <= RETRY_LIMIT /\ d # TRUE
\* variant: a plain "else" in place of "elif (down != True)"
MayFailover_always(d) == TRUE
\* "elif (down != True)"
MayFailover(d) == d # TRUE

\* isup(main_check_url) is True, down is False
HostUp ==
  /\ pc = "loop"
  /\ TRUE \in isup("main")
  /\ down # TRUE
  /\ retry' = UpResetsRetry(retry)
  /\ loopcount' = AfterNotice(loopcount) + 1
  /\ trace' = UpTrace(loopcount)
  /\ pc' = "sleep"
  /\ Observe(TRUE)
  /\ UNCHANGED <<host_ip, backup_ip, failips, api, down, idx, env, okSinceDown>>

\* variant: "retry = 1" in place of "retry += 1"
HostUpRetry_stuck ==
  /\ pc = "loop"
  /\ TRUE \in isup("main")
  /\ down = TRUE
  /\ StillRecovering(retry)
  /\ retry' = 1
  /\ loopcount' = AfterNotice(loopcount) + 1
  /\ trace' = UpTrace(loopcount)
  /\ pc' = "sleep"
  /\ Observe(TRUE)
  /\ okSinceDown' = Min(okSinceDown + 1, MaxRun)
  /\ UNCHANGED <<host_ip, backup_ip, failips, api, down, idx, env>>

\* isup(main_check_url) is True, down is True, retry <= 2
HostUpRetry ==
  /\ pc = "loop"
  /\ TRUE \in isup("main")
  /\ down = TRUE
  /\ StillRecovering(retry)
  /\ retry' = retry + 1
  /\ loopcount' = AfterNotice(loopcount) + 1
  /\ trace' = UpTrace(loopcount)
  /\ pc' = "sleep"
  /\ Observe(TRUE)
  /\ okSinceDown' = Min(okSinceDown + 1, MaxRun)
  /\ UNCHANGED <<host_ip, backup_ip, failips, api, down, idx, env>>

\* variant: the failover IPs are looked up again before switching back
HostBackUp_requery ==
  /\ pc = "loop"
  /\ TRUE \in isup("main")
  /\ down = TRUE
  /\ ~StillRecovering(retry)
  /\ \E data \in ApiData : failips' = get_failover_of_host(host_ip, data)
  /\ loopcount' = 0
  /\ idx' = 1
  /\ trace' = UpTrace(loopcount)
  /\ pc' = "switch_host"
  /\ Observe(TRUE)
  /\ okSinceDown' = Min(okSinceDown + 1, MaxRun)
  /\ UNCHANGED <<host_ip, backup_ip, api, retry, down, env>>

\* isup(main_check_url) is True, down is True, retry > 2: start switching back
HostBackUp ==
  /\ pc = "loop"
  /\ TRUE \in isup("main")
  /\ down = TRUE
  /\ ~StillRecovering(retry)
  /\ loopcount' = 0
  /\ idx' = 1
  /\ trace' = UpTrace(loopcount)
  /\ pc' = "switch_host"
  /\ Observe(TRUE)
  /\ okSinceDown' = Min(okSinceDown + 1, MaxRun)
  /\ UNCHANGED <<host_ip, backup_ip, failips, api, retry, down, env>>

\* one pass of "for ip in failips: change_ip(ip, host_ip)"; the result of
\* change_ip (True, or False after any error) is dropped by main()
ChangeIpHost ==
  /\ pc = "switch_host"
  /\ idx <= Len(failips)
  /\ \E ok \in BOOLEAN : trace' = Append(trace, SwitchEv(failips[idx], host_ip, ok))
  /\ idx' = idx + 1
  /\ switched' = TRUE
  /\ lastTarget' = trace'[Len(trace')].target
  /\ UNCHANGED <<pc, host_ip, backup_ip, failips, api, retry, down, loopcount, env>>
  /\ UNCHANGED <<failRun, okRun, maxUpFail, okSinceDown, downAtStart>>

\* variant: without "down = False"
HostBackUpDone_keepsDown ==
  /\ pc = "switch_host"
  /\ idx > Len(failips)
  /\ retry' = 0
  /\ loopcount' = loopcount + 1
  /\ pc' = "sleep"
  /\ UNCHANGED <<host_ip, backup_ip, failips, api, down, idx, env, trace>>
  /\ UNCHANGED hist

\* after the loop: "down = False; retry = 0" and the final "loopcount += 1"
HostBackUpDone ==
  /\ pc = "switch_host"
  /\ idx > Len(failips)
  /\ down' = FALSE
  /\ retry' = 0
  /\ loopcount' = loopcount + 1
  /\ pc' = "sleep"
  /\ UNCHANGED <<host_ip, backup_ip, failips, api, idx, env, trace>>
  /\ UNCHANGED hist

\* variant: "retry = 1" in place of "retry += 1"
HostDownRetry_stuck ==
  /\ pc = "loop"
  /\ FALSE \in isup("main")
  /\ StillRetrying(retry, down)
  /\ retry' = 1
  /\ trace' = <<ProbeEv("main", FALSE)>>
  /\ pc' = "sleep"
  /\ Observe(FALSE)
  /\ UNCHANGED <<host_ip, backup_ip, failips, api, down, loopcount, idx, env, okSinceDown>>

\* isup(main_check_url) is False, retry <= 2 and not down
HostDownRetry ==
  /\ pc = "loop"
  /\ FALSE \in isup("main")
  /\ StillRetrying(retry, down)
  /\ retry' = retry + 1
  /\ trace' = <<ProbeEv("main", FALSE)>>
  /\ pc' = "sleep"
  /\ Observe(FALSE)
  /\ UNCHANGED <<host_ip, backup_ip, failips, api, down, loopcount, idx, env, okSinceDown>>

\* isup(main_check_url) is False, retries used up, not down: go on to
\* check the backup
HostDown ==
  /\ pc = "loop"
  /\ FALSE \in isup("main")
  /\ ~StillRetrying(retry, down)
  /\ MayFailover(down)
  /\ trace' = <<ProbeEv("main", FALSE)>>
  /\ pc' = "check_backup"
  /\ Observe(FALSE)
  /\ UNCHANGED <<host_ip, backup_ip, failips, api, retry, down, loopcount, idx, env, okSinceDown>>

\* variant: the result of isup(back_check_url) is not tested
Failover_unguarded ==
  /\ pc = "check_backup"
  /\ \E b \in isup("back") :
       trace' = Append(trace, ProbeEv("back", b))
  /\ down' = TRUE
  /\ loopcount' = 0
  /\ idx' = 1
  /\ okSinceDown' = 0
  /\ pc' = "switch_backup"
  /\ UNCHANGED <<host_ip, backup_ip, failips, api, retry, env>>
  /\ UNCHANGED <<failRun, okRun, maxUpFail, switched, lastTarget, downAtStart>>

\* isup(back_check_url) is True: "down = True; loopcount = 0", then the loop
Failover ==
  /\ pc = "check_backup"
  /\ \E b \in isup("back") :
       /\ b
       /\ trace' = Append(trace, ProbeEv("back", b))
  /\ down' = TRUE
  /\ loopcount' = 0
  /\ idx' = 1
  /\ okSinceDown' = 0
  /\ pc' = "switch_backup"
  /\ UNCHANGED <<host_ip, backup_ip, failips, api, retry, env>>
  /\ UNCHANGED <<failRun, okRun, maxUpFail, switched, lastTarget, downAtStart>>

\* variant: change_ip without its try/except, a failed call ends the process
ChangeIpBackup_raises ==
  /\ pc = "switch_backup"
  /\ idx <= Len(failips)
  /\ \E ok \in BOOLEAN :
       /\ trace' = Append(trace, SwitchEv(failips[idx], backup_ip, ok))
       /\ pc' = IF ok THEN pc ELSE "crashed"
  /\ idx' = idx + 1
  /\ switched' = TRUE
  /\ lastTarget' = trace'[Len(trace')].target
  /\ UNCHANGED <<host_ip, backup_ip, failips, api, retry, down, loopcount, env>>
  /\ UNCHANGED <<failRun, okRun, maxUpFail, okSinceDown, downAtStart>>

\* one pass of "for ip in failips: change_ip(ip, backup_ip)"
ChangeIpBackup ==
  /\ pc = "switch_backup"
  /\ idx <= Len(failips)
  /\ \E ok \in BOOLEAN : trace' = Append(trace, SwitchEv(failips[idx], backup_ip, ok))
  /\ idx' = idx + 1
  /\ switched' = TRUE
  /\ lastTarget' = trace'[Len(trace')].target
  /\ UNCHANGED <<pc, host_ip, backup_ip, failips, api, retry, down, loopcount, env>>
  /\ UNCHANGED <<failRun, okRun, maxUpFail, okSinceDown, downAtStart>>

\* variant: without the final "retry = 0"
FailoverDone_keep ==
  /\ pc = "switch_backup"
  /\ idx > Len(failips)
  /\ pc' = "sleep"
  /\ UNCHANGED <<host_ip, backup_ip, failips, api, retry, down, loopcount, idx, env, trace>>
  /\ UNCHANGED hist

\* after the loop: "retry = 0"
FailoverDone ==
  /\ pc = "switch_backup"
  /\ idx > Len(failips)
  /\ retry' = 0
  /\ pc' = "sleep"
  /\ UNCHANGED <<host_ip, backup_ip, failips, api, down, loopcount, idx, env, trace>>
  /\ UNCHANGED hist

\* variant: "retry = 0" one indentation level out, run by both branches
AllHostsDown_reset ==
  /\ pc = "check_backup"
  /\ FALSE \in isup("back")
  /\ trace' = Append(trace, ProbeEv("back", FALSE))
  /\ retry' = 0
  /\ pc' = "stride"
  /\ UNCHANGED <<host_ip, backup_ip, failips, api, down, loopcount, idx, env>>
  /\ UNCHANGED hist

\* isup(back_check_url) is False: log "All hosts down! Not switching failover."
AllHostsDown ==
  /\ pc = "check_backup"
  /\ FALSE \in isup("back")
  /\ trace' = Append(trace, ProbeEv("back", FALSE))
  /\ pc' = "stride"
  /\ UNCHANGED <<host_ip, backup_ip, failips, api, retry, down, loopcount, idx, env>>
  /\ UNCHANGED hist

\* stride(...) is defined nowhere: the call raises NameError, which nothing
\* catches, and the process ends with a traceback
stride ==
  /\ pc = "stride"
  /\ pc' = "crashed"
  /\ UNCHANGED <<host_ip, backup_ip, failips, api, retry, down, loopcount, idx, env, trace>>
  /\ UNCHANGED hist

\* isup(main_check_url) is False and down is True: log "... is still down"
StillDown ==
  /\ pc = "loop"
  /\ FALSE \in isup("main")
  /\ ~StillRetrying(retry, down)
  /\ ~MayFailover(down)
  /\ trace' = <<ProbeEv("main", FALSE)>>
  /\ pc' = "sleep"
  /\ Observe(FALSE)
  /\ UNCHANGED <<host_ip, backup_ip, failips, api, retry, down, loopcount, idx, env, okSinceDown>>

\* sleep(2), then the next iteration starts
Sleep ==
  /\ pc = "sleep"
  /\ pc' = "loop"
  /\ trace' = <<>>
  /\ downAtStart' = down
  /\ UNCHANGED <<host_ip, backup_ip, failips, api, retry, down, loopcount, idx, env>>
  /\ UNCHANGED <<failRun, okRun, maxUpFail, okSinceDown, switched, lastTarget>>

(* ---------------- the health endpoints ---------------- *)
\* from this iteration on the main host never answers and the backup always does
MainFailsForGood ==
  /\ pc = "loop"
  /\ env = "free"
  /\ env' = "failing"
  /\ UNCHANGED prog
  /\ UNCHANGED trace
  /\ UNCHANGED hist

\* from this iteration on the main host always answers
MainRecoversForGood ==
  /\ pc = "loop"
  /\ env = "free"
  /\ env' = "recovered"
  /\ UNCHANGED prog
  /\ UNCHANGED trace
  /\ UNCHANGED hist

Iteration ==
  \/ HostUp \/ HostUpRetry \/ HostBackUp \/ ChangeIpHost \/ HostBackUpDone
  \/ HostDownRetry \/ HostDown \/ Failover \/ ChangeIpBackup \/ FailoverDone
  \/ AllHostsDown \/ stride \/ StillDown \/ Sleep

Next ==
  \/ ResolveHost \/ ResolveBackup \/ GetFailips
  \/ HostUp \/ HostUpRetry \/ HostBackUp \/ ChangeIpHost \/ HostBackUpDone
  \/ HostDownRetry \/ HostDown \/ Failover \/ ChangeIpBackup \/ FailoverDone
  \/ AllHostsDown \/ stride \/ StillDown \/ Sleep
  \/ MainFailsForGood \/ MainRecoversForGood

Spec == Init /\ [][Next]_vars

\* the loop keeps being scheduled and every call returns
FairSpec == Init /\ [][Next]_vars /\ WF_vars(Iteration)

(* ---------------- vocabulary of the properties ---------------- *)
MainFailed == ProbeEv("main", FALSE)
MainAnswered == ProbeEv("main", TRUE)
BackupFailed == ProbeEv("back", FALSE)
BackupAnswered == ProbeEv("back", TRUE)

\* the iteration has made all its calls
IterationOver == pc \in {"sleep", "crashed"}
\* the iteration began with a failed / successful probe of the main host
BeganWithFailure == trace # <<>> /\ trace[1] = MainFailed
BeganWithSuccess == trace # <<>> /\ trace[1] = MainAnswered
\* the iteration called change_ip once per failover IP, in order, all with
\* the given target
BatchTo(target) ==
  LET sw == SwitchesOf(trace)
  IN /\ Len(sw) = Len(failips)
     /\ \A i \in 1..Len(sw) : sw[i].arg = failips[i] /\ sw[i].target = target
NoSwitch == SwitchIdx(trace) = {}

(* ---------------- C1 ---------------- *)
\* C1: a change_ip call with the backup address is made only in an iteration
\* whose probe of the main host failed and whose own probe of the backup,
\* made after that and before the first change_ip call, succeeded.
C1_BackupGuard ==
  \A i \in SwitchIdx(trace) :
    trace[i].target = backup_ip =>
      /\ trace[1] = MainFailed
      /\ \E k \in 2..(i - 1) :
           /\ trace[k] = BackupAnswered
           /\ \A j \in SwitchIdx(trace) : k < j

C1_Witness ==
  /\ pc = "sleep"
  /\ Len(failips) = 2
  /\ BatchTo(backup_ip)
  /\ trace[2] = BackupAnswered

(* ---------------- C2 ---------------- *)
\* C2: as long as the probes made in phase UP never contained 3 failures in
\* a row, the phase is UP and change_ip has never been called.
C2_BelowThreshold ==
  maxUpFail < 3 => (down = FALSE /\ switched = FALSE /\ NoSwitch)

\* two failures in a row, then a success that put the counter back to 0
C2_Witness ==
  /\ pc = "sleep"
  /\ maxUpFail = 2
  /\ BeganWithSuccess
  /\ retry = 0
  /\ ~down

(* ---------------- C3 ---------------- *)
\* C3 as stated: the iteration of the 3rd failure in a row in phase UP
\* probes the backup and, if it answers, switches every failover IP to the
\* backup and ends in phase DOWN.
C3_Original ==
  (IterationOver /\ ~downAtStart /\ BeganWithFailure /\ failRun = 3) =>
     /\ Len(trace) >= 2
     /\ trace[2].ev = "isup" /\ trace[2].arg = "back"
     /\ trace[2].ok => (down /\ BatchTo(backup_ip))

\* C3 amended: the 1st, 2nd and 3rd failure in a row in phase UP only count
\* (no probe of the backup, no change_ip, phase UP); the iteration of the 4th
\* probes the backup and, if it answers, calls change_ip once per failover IP
\* with the backup address and ends in phase DOWN with the counter at 0.
C3_FourthFailure ==
  (IterationOver /\ ~downAtStart /\ BeganWithFailure) =>
     /\ failRun <= 4
     /\ failRun < 4 => (trace = <<MainFailed>> /\ ~down /\ retry = failRun)
     /\ failRun = 4 =>
          /\ Len(trace) >= 2
          /\ trace[2].ev = "isup" /\ trace[2].arg = "back"
          /\ trace[2].ok => (down /\ BatchTo(backup_ip) /\ retry = 0
                              /\ Len(trace) = 2 + Len(failips))

C3_Witness ==
  /\ pc = "sleep"
  /\ ~downAtStart
  /\ failRun = 4
  /\ down
  /\ Len(failips) = 2
  /\ BatchTo(backup_ip)

(* ---------------- C4 ---------------- *)
\* C4 as stated: the iteration of the 3rd success in a row since phase DOWN
\* began switches every failover IP to the main host and ends in phase UP.
C4_Original ==
  (IterationOver /\ downAtStart /\ BeganWithSuccess
     /\ okRun = 3 /\ okSinceDown = 3) =>
     (~down /\ BatchTo(host_ip))

\* C4 amended: in phase DOWN the 1st, 2nd and 3rd successful probe since the
\* phase began only count (phase DOWN, no change_ip); the iteration of the
\* 4th calls change_ip once per failover IP with the main host's address and
\* ends in phase UP with the counter at 0.
C4_FourthSuccess ==
  (IterationOver /\ downAtStart /\ BeganWithSuccess) =>
     /\ okSinceDown <= 4
     /\ okSinceDown < 4 => (down /\ NoSwitch /\ retry = okSinceDown)
     /\ okSinceDown = 4 => (~down /\ BatchTo(host_ip) /\ retry = 0)

C4_Witness ==
  /\ pc = "sleep"
  /\ downAtStart
  /\ ~down
  /\ okRun = 4
  /\ okSinceDown = 4
  /\ Len(failips) = 2
  /\ BatchTo(host_ip)

(* ---------------- C5 ---------------- *)
\* C5: the switch back and the transition DOWN to UP happen only when the
\* 3 most recent probes of the main host all succeeded.
C5_Original ==
  (downAtStart /\ (pc = "switch_host" \/ (pc = "sleep" /\ ~down))) => okRun >= 3

(* ---------------- C6 ---------------- *)
\* C6: in an iteration of phase UP whose probe of the main host and whose
\* probe of the backup both failed, no change_ip call is made, the phase is
\* still UP and the counter still has the value that used up the retries.
C6_DoubleFailure ==
  (Len(trace) >= 2 /\ trace[2] = BackupFailed) =>
     /\ trace = <<MainFailed, BackupFailed>>
     /\ ~downAtStart
     /\ ~down
     /\ retry = RETRY_LIMIT + 1
     /\ failRun = retry + 1

C6_Witness ==
  /\ pc = "stride"
  /\ trace = <<MainFailed, BackupFailed>>
  /\ maxUpFail = 4

(* ---------------- C7 ---------------- *)
\* C7: the loop has no terminal state: no step of an iteration raises.
C7_Original == pc # "crashed"

(* ---------------- C8 ---------------- *)
\* C8: a batch calls change_ip for the failover IPs in order, each at most
\* once whatever the earlier calls returned; when the iteration is over the
\* batch is complete (one call per failover IP, all with the same target)
\* and the phase is the new one.
C8_WholeBatch ==
  LET sw == SwitchesOf(trace)
  IN /\ Len(sw) <= Len(failips)
     /\ \A i \in 1..Len(sw) : sw[i].arg = failips[i]
     /\ (IterationOver /\ sw # <<>>) =>
          /\ pc = "sleep"
          /\ \/ BatchTo(backup_ip) /\ ~downAtStart /\ down
             \/ BatchTo(host_ip) /\ downAtStart /\ ~down

\* a batch whose first call failed and whose second call was still made
C8_Witness ==
  /\ pc = "sleep"
  /\ Len(failips) = 2
  /\ Len(SwitchesOf(trace)) = 2
  /\ SwitchesOf(trace)[1].ok = FALSE
  /\ down # downAtStart

(* ---------------- C9 ---------------- *)
\* C9: an iteration that begins in phase DOWN with a failed probe of the
\* main host makes no other call (no probe of the backup, no change_ip) and
\* ends in phase DOWN.
C9_StillDown ==
  (downAtStart /\ BeganWithFailure) =>
     (trace = <<MainFailed>> /\ down /\ pc = "sleep")

\* the failure right after the failover, and one after a counted success
C9_Witness ==
  /\ pc = "sleep"
  /\ downAtStart
  /\ trace = <<MainFailed>>
  /\ retry = RETRY_LIMIT + 1

(* ---------------- C10 ---------------- *)
\* C10: if in phase UP the main host stops answering for good while the
\* backup answers, then eventually the phase is DOWN and change_ip has been
\* called with the backup address for every failover IP.
C10_FailoverLiveness ==
  (env = "failing" /\ ~down) ~> (down /\ pc = "sleep" /\ BatchTo(backup_ip))

C10_Witness ==
  /\ env = "failing"
  /\ pc = "sleep"
  /\ ~downAtStart
  /\ down
  /\ BatchTo(backup_ip)

(* ---------------- C11 ---------------- *)
\* C11: if in phase DOWN the main host answers every probe from some
\* iteration on, then eventually the phase is UP and change_ip has been
\* called with the main host's address for every failover IP.
C11_RecoveryLiveness ==
  (env = "recovered" /\ down) ~> (~down /\ pc = "sleep" /\ BatchTo(host_ip))

C11_Witness ==
  /\ env = "recovered"
  /\ pc = "sleep"
  /\ downAtStart
  /\ ~down
  /\ BatchTo(host_ip)

(* ---------------- C12 ---------------- *)
\* C12: once the loop runs, no step changes the list of failover IPs found
\* at startup, and every change_ip call is made for an IP of that list.
C12_FailipsFrozen ==
  [][(pc \notin {"resolve_host", "resolve_backup", "get_failips"}) =>
       /\ failips' = failips
       /\ \A i \in SwitchIdx(trace') :
            \E k \in 1..Len(failips) : trace'[i].arg = failips[k]]_vars

\* a switch back, after a failover, in which a call failed
C12_Witness ==
  /\ pc = "sleep"
  /\ downAtStart
  /\ ~down
  /\ Len(failips) = 2
  /\ BatchTo(host_ip)
  /\ \E i \in SwitchIdx(trace) : trace[i].ok = FALSE

(* ---------------- C13 ---------------- *)
\* main() is past its startup, in the monitoring loop
InLoop == pc \in {"loop", "switch_host", "check_backup", "switch_backup",
                  "stride", "crashed", "sleep"}

\* C13: a failed lookup of either host, a failed or empty lookup of the
\* failover IPs ends the process with exit code 1 before any probe or
\* change_ip call; in the loop both addresses are known and the list of
\* failover IPs is not empty.
C13_StartupFatal ==
  /\ (pc = "exit1") =>
        /\ host_ip = None \/ backup_ip = None \/ failips = <<>>
        /\ trace = <<>> /\ ~switched /\ failRun = 0 /\ okRun = 0
  /\ (pc # "resolve_host" /\ host_ip = None) => pc = "exit1"
  /\ (pc \notin {"resolve_host", "resolve_backup"} /\ backup_ip = None) => pc = "exit1"
  /\ InLoop => (host_ip # None /\ backup_ip # None /\ failips # <<>>)

\* the provider answered, but with no failover IP routed to the main host
C13_Witness ==
  /\ pc = "exit1"
  /\ host_ip # None
  /\ backup_ip # None
  /\ api # <<>>
  /\ failips = <<>>

(* ---------------- C14 ---------------- *)
\* C14: while a change_ip call of a batch is still to be made, the phase
\* still has the value it had when the iteration began.
C14_Original ==
  (pc \in {"switch_backup", "switch_host"} /\ idx <= Len(failips)) =>
     down = downAtStart

(* ---------------- C15 ---------------- *)
\* C15: an iteration that changed the phase ends with the retry counter at
\* 0, whatever the change_ip calls returned.
C15_RetryZeroAfterTransition ==
  (pc = "sleep" /\ down # downAtStart) => retry = 0

\* a failover all of whose change_ip calls failed
C15_Witness ==
  /\ pc = "sleep"
  /\ ~downAtStart
  /\ down
  /\ retry = 0
  /\ Len(failips) = 2
  /\ BatchTo(backup_ip)
  /\ \A i \in SwitchIdx(trace) : trace[i].ok = FALSE

(* ---------------- C16 ---------------- *)
\* the iteration logged "... was up for the last 15 checks"
Noticed == \E i \in 1..Len(trace) : trace[i] = NoticeEv

\* C16: counted from startup, the 15th successful probe of the main host
\* finds the counter at its limit and logs the notice.
C16_Original ==
  (pc = "sleep" /\ maxUpFail = 0 /\ ~switched /\ okRun = STABLE_LOG_INTERVAL) =>
     Noticed

(* ---------------- C17 ---------------- *)
\* C17: when the notice is logged, the 15 most recent probes of the main
\* host (the one of this iteration included) all succeeded.
C17_Original == Noticed => okRun >= STABLE_LOG_INTERVAL

(* ---------------- C18 ---------------- *)
\* the failover IPs main() manages, as a set
Managed == {failips[k] : k \in 1..Len(failips)}
\* the failover IPs of the provider's answer whose active target is the
\* address a
ApiIPsRoutedTo(a) ==
  {api[i].ip : i \in {j \in 1..Len(api) : api[j].active_server_ip = a}}

C19_RetryBounded == retry \in 0..(RETRY_LIMIT + 1)

\* the counter at its largest value in a phase DOWN that lasts
C19_Witness ==
  /\ pc = "sleep"
  /\ downAtStart
  /\ down
  /\ retry = RETRY_LIMIT + 1
  /\ failRun >= 2

(* ---------------- C20 ---------------- *)
\* C20: the first change_ip call of a batch never has the target of the
\* call made before it, and the first call ever made has the backup address.
C20_Alternate ==
  [][(pc \in {"switch_host", "switch_backup"} /\ idx = 1 /\ idx' = 2) =>
       /\ lastTarget' # lastTarget
       /\ lastTarget = None => lastTarget' = backup_ip]_vars

\* a batch to the main host, made after the batch to the backup
C20_Witness ==
  /\ pc = "switch_host"
  /\ idx = 2
  /\ lastTarget = host_ip
  /\ Len(failips) = 1

====
